---- MODULE Spec2Model ----
(***************************************************************************)
(* Fama-French / Carhart factor regression (scripts/factor_model.py).      *)
(*                                                                         *)
(* The model follows one SQLite store through consecutive invocations of   *)
(* main(): the factor table factors_monthly, the view vw_monthly_returns,  *)
(* the result table factor_reg_results, and the position of the running    *)
(* invocation.  Text values whose ORDER the code uses (time keys, tickers) *)
(* are sequences of code points, compared the way Python and SQLite        *)
(* compare text.  Numeric cells are abstracted to "a finite number" or     *)
(* "missing"; none of the properties below depends on a cell's magnitude.  *)
(***************************************************************************)
EXTENDS Integers, Sequences, FiniteSets, TLC

\* Months of data the provider and the return view can hold.
MaxYm == 2
\* Invocations of main() against the same store.
MaxRuns == 2

---------------------------------------------------------------------------
(* Text as code points *)

Digit(d) == 48 + d

\* The 'YYYY-MM' text of the m-th modelled month; month 1 is 2019-12, so the
\* modelled months cross a year boundary.
YmStr(m) ==
  LET a  == 2019 * 12 + 10 + m
      y  == a \div 12
      mo == (a % 12) + 1
  IN  << Digit(y \div 1000), Digit((y \div 100) % 10), Digit((y \div 10) % 10),
         Digit(y % 10), 45, Digit(mo \div 10), Digit(mo % 10) >>

\* str(pd.NaT): what astype(str) gives for a period that failed to parse.
NaT == << 78, 97, 84 >>

Months == 1 .. MaxYm
ValidYm == { YmStr(m) : m \in Months }

\* Python's / SQLite's (BINARY collation) text order: code point by code point,
\* a proper prefix first.
RECURSIVE StrLess(_, _)
StrLess(s, t) ==
  IF t = << >> THEN FALSE
  ELSE IF s = << >> THEN TRUE
  ELSE IF Head(s) # Head(t) THEN Head(s) < Head(t)
  ELSE StrLess(Tail(s), Tail(t))

StrGeq(s, t) == ~ StrLess(s, t)

\* min() / max() of a non-empty column of text.
StrMin(S) == CHOOSE s \in S : \A t \in S : ~ StrLess(t, s)
StrMax(S) == CHOOSE s \in S : \A t \in S : ~ StrLess(s, t)

\* sorted(...) of a set of distinct texts.
RECURSIVE SortedSeq(_)
SortedSeq(S) ==
  IF S = {} THEN << >>
  ELSE LET m == StrMin(S) IN << m >> \o SortedSeq(S \ {m})

Range(s) == { s[i] : i \in 1 .. Len(s) }

---------------------------------------------------------------------------
(* Cells *)

Num == "num"      \* a finite number
NaN == "nan"      \* missing: NaN in pandas, NULL in SQLite
RawNum  == "pct"  \* a provider cell holding a number, in percentage points
RawText == "txt"  \* a provider cell that is not numeric

\* pd.to_numeric(col, errors="coerce") / 100.0
ToDecimal(v) == IF v = RawNum THEN Num ELSE NaN

---------------------------------------------------------------------------
(* The factor data source and the Factor Normalizer *)

\* An entry of a raw series' index: a date or period in modelled month m, or an
\* entry that is no date (NaT, or text pd.to_datetime(errors="coerce") turns
\* into NaT).
RawIdx == { [ok |-> TRUE, m |-> m] : m \in Months } \cup { [ok |-> FALSE, m |-> 0] }

FF3RawCols == { "Mkt-RF", "SMB", "HML", "RF" }

\* The raw three-factor series the provider can return: any set of index
\* entries, with at most one non-numeric cell.
RawFF3Tables ==
  { { [idx |-> i,
       vals |-> [c \in FF3RawCols |-> IF bad = << i, c >> THEN RawText ELSE RawNum]]
      : i \in I }
    : I \in SUBSET RawIdx,
      bad \in { << [ok |-> FALSE, m |-> 0], "none" >> } \cup (RawIdx \X FF3RawCols) }

\* The momentum fetch: it fails (ok = FALSE), or returns a series over every
\* index entry, or one that starts a month after the first modelled month (as
\* the provider's momentum series starts later than its three-factor series).
RawMomOutcomes ==
  { [ok |-> FALSE, rows |-> {}] }
    \cup { [ok |-> TRUE, rows |-> { [idx |-> i, Mom |-> RawNum] : i \in J }]
           : J \in { RawIdx, { i \in RawIdx : i.ok /\ i.m > 1 } } }

\* _ym_from_index: every branch formats a period as 'YYYY-MM'; an entry that is
\* no date becomes NaT, which astype(str) writes as the text 'NaT'.
YmFromIndex(e) == IF e.ok THEN YmStr(e.m) ELSE NaT

NoCol == "nocol"  \* the cell of a column the table does not have

\* ff3.merge(mom[["ym", "mom"]], on="ym", how="left"): the momentum cells that
\* share the row's ym; none leaves the cell missing.
MomCells(mom, ym) == { r.Mom : r \in { x \in mom.rows : YmFromIndex(x.idx) = ym } }

\* Lines 36-52: rename the columns, derive ym, join momentum when it was
\* fetched; cells still raw.
MergedFactors(ff3, mom) ==
  UNION { LET ym == YmFromIndex(r.idx)
              base == [ym |-> ym, mkt_rf |-> r.vals["Mkt-RF"], smb |-> r.vals["SMB"],
                       hml |-> r.vals["HML"], rf |-> r.vals["RF"]]
          IN  IF ~ mom.ok THEN { base @@ [mom |-> NoCol] }
              ELSE IF MomCells(mom, ym) = {} THEN { base @@ [mom |-> NaN] }
              ELSE { base @@ [mom |-> c] : c \in MomCells(mom, ym) }
          : r \in ff3 }

\* Lines 55-56: percent to decimal, every column but ym.
DecimalRow(r) ==
  [ym |-> r.ym, mkt_rf |-> ToDecimal(r.mkt_rf), smb |-> ToDecimal(r.smb),
   hml |-> ToDecimal(r.hml), rf |-> ToDecimal(r.rf),
   mom |-> IF r.mom = NoCol THEN NoCol ELSE ToDecimal(r.mom)]

\* Line 59, first half: ff["ym"] >= start_ym compares text.
FromStart(r, start_ym) == StrGeq(r.ym, start_ym)

\* Line 59, second half: dropna(subset=["mkt_rf", "smb", "hml", "rf"]).
HasFF3(r) == r.mkt_rf # NaN /\ r.smb # NaN /\ r.hml # NaN /\ r.rf # NaN

\* load_factors_ff(start_ym), given what the two fetches returned.
load_factors_ff(start_ym, ff3, mom) ==
  [exists |-> TRUE,
   hasMom |-> mom.ok,
   rows   |-> { r \in { DecimalRow(x) : x \in MergedFactors(ff3, mom) }
                  : FromStart(r, start_ym) /\ HasFF3(r) }]

---------------------------------------------------------------------------
(* The store and the running invocation *)

VARIABLES
  factors_monthly,     \* [exists, hasMom, rows]: the canonical factor table
  vw_monthly_returns,  \* rows (ticker, ym, mret) of the upstream view
  factor_reg_results,  \* the committed rows of the result table, in rowid order
  pc,                  \* position of main(): idle, ensure, load, loop, done, failed
  args,                \* the parsed command line
  rets, fac,           \* the two frames main() loads
  todo,                \* the tickers the loop has still to visit
  stdout,              \* lines printed by the running invocation
  err,                 \* the error that ended the invocation, or "none"
  runsLeft,            \* invocations still to be made
  base,                \* rows the result table held when the invocation started
  aligned,             \* tickers this invocation has aligned, in order
  olsCalls,            \* per call of ols in this invocation: sample and columns
  fits,                \* per row this invocation inserted: sample, columns, row
  lastEnsure           \* what this invocation's ensure_factors_in_db did:
                       \* none (not called yet), skipped, fetch_failed, wrote

vars == << factors_monthly, vw_monthly_returns, factor_reg_results, pc, args, rets,
           fac, todo, stdout, err, runsLeft, base, aligned, olsCalls, fits,
           lastEnsure >>

\* "AB" and "B": two asset identifiers, one a text that sorts before the other.
TickerAB == << 65, 66 >>
TickerB  == << 66 >>
Tickers  == { TickerAB, TickerB }

\* --tickers: one or more distinct identifiers, in any order.
TickerLists ==
  { << t >> : t \in Tickers } \cup { l \in Tickers \X Tickers : l[1] # l[2] }

\* --start: a date 'YYYY-MM-01' in a modelled month.
StartDates == { y \o << 45, 48, 49 >> : y \in ValidYm }

\* args.start[:7]
StartYm(a) == SubSeq(a.start, 1, 7)

\* The return views modelled: "AB" has a row in any set of months, the earliest
\* of them possibly with a NULL return; "B" has no row or a row in every month.
ReturnViews ==
  { { [ticker |-> TickerAB, ym |-> YmStr(m),
       mret |-> IF nullFirst /\ (\A k \in S : m <= k) THEN NaN ELSE Num] : m \in S }
      \cup { [ticker |-> TickerB, ym |-> YmStr(m), mret |-> Num] : m \in T }
    : S \in SUBSET Months, T \in { {}, Months }, nullFirst \in BOOLEAN }

NoTable == [exists |-> FALSE, hasMom |-> FALSE, rows |-> {}]
NoArgs  == [tickers |-> << >>, start |-> << >>, carhart |-> FALSE]

\* The smaller set of views the store has when it is followed through several
\* invocations: "B" in every month beside "AB" in the last month only, or "AB"
\* alone in every month.
ReturnViewsRuns ==
  { { [ticker |-> TickerB, ym |-> YmStr(m), mret |-> Num] : m \in Months }
      \cup { [ticker |-> TickerAB, ym |-> YmStr(MaxYm), mret |-> Num] },
    { [ticker |-> TickerAB, ym |-> YmStr(m), mret |-> Num] : m \in Months } }

\* A fresh store beside a return view some upstream pipeline has filled, and
\* no invocation made yet.
Fresh ==
  /\ factors_monthly = NoTable
  /\ factor_reg_results = << >>
  /\ pc = "idle"
  /\ args = NoArgs
  /\ rets = {}
  /\ fac = NoTable
  /\ todo = << >>
  /\ stdout = << >>
  /\ err = "none"
  /\ base = 0
  /\ aligned = << >>
  /\ olsCalls = << >>
  /\ fits = << >>
  /\ lastEnsure = "none"

\* One invocation, against any of the modelled views.
Init ==
  /\ Fresh
  /\ vw_monthly_returns \in ReturnViews
  /\ runsLeft = 1

\* Up to MaxRuns invocations, one after the other, against the same store.
InitRuns ==
  /\ Fresh
  /\ vw_monthly_returns \in ReturnViewsRuns
  /\ runsLeft = MaxRuns

\* Lines 92-99: a new process parses its arguments and opens the store.
Start(tickers, start, carhart) ==
  /\ pc \in { "idle", "done", "failed" }
  /\ runsLeft > 0
  /\ pc' = "ensure"
  /\ args' = [tickers |-> tickers, start |-> start, carhart |-> carhart]
  /\ runsLeft' = runsLeft - 1
  /\ base' = Len(factor_reg_results)
  /\ rets' = {}
  /\ fac' = NoTable
  /\ todo' = << >>
  /\ stdout' = << >>
  /\ err' = "none"
  /\ aligned' = << >>
  /\ olsCalls' = << >>
  /\ fits' = << >>
  /\ lastEnsure' = "none"
  /\ UNCHANGED << factors_monthly, vw_monthly_returns, factor_reg_results >>

\* A faulty FactorCount: the count always reads as zero, so every call
\* fetches again.
FactorCountNone(tbl) == 0

\* Line 66: SELECT COUNT(*); a missing table raises and the except passes.
FactorCount(tbl) == IF tbl.exists THEN Cardinality(tbl.rows) ELSE 0

\* Line 102, ensure_factors_in_db(conn, start_ym): return when the table holds
\* a row; otherwise fetch, normalise, replace the table and commit.  A failed
\* primary fetch propagates and ends the invocation.
EnsureFactors ==
  /\ pc = "ensure"
  /\ IF FactorCount(factors_monthly) > 0
     THEN /\ lastEnsure' = "skipped"
          /\ pc' = "load"
          /\ UNCHANGED << factors_monthly, err >>
     ELSE \/ /\ lastEnsure' = "fetch_failed"
             /\ pc' = "failed"
             /\ err' = "DataSourceUnavailable"
             /\ UNCHANGED factors_monthly
          \/ \E ff3 \in RawFF3Tables, mom \in RawMomOutcomes :
               /\ factors_monthly' = load_factors_ff(StartYm(args), ff3, mom)
               /\ lastEnsure' = "wrote"
               /\ pc' = "load"
               /\ UNCHANGED err
  /\ UNCHANGED << vw_monthly_returns, factor_reg_results, args, rets, fac, todo, stdout,
                  runsLeft, base, aligned, olsCalls, fits >>

---------------------------------------------------------------------------
(* Loading, aligning, fitting, recording *)

\* Lines 106-115: SELECT ticker, ym, mret FROM vw_monthly_returns
\* WHERE ym >= ? AND ticker IN (...).
QueryReturns(view, start_ym, tickers) ==
  { r \in view : StrGeq(r.ym, start_ym) /\ r.ticker \in Range(tickers) }

\* Line 119: SELECT * FROM factors_monthly WHERE ym >= ?.
QueryFactors(tbl, start_ym) ==
  [exists |-> TRUE, hasMom |-> tbl.hasMom,
   rows |-> { r \in tbl.rows : StrGeq(r.ym, start_ym) }]

RECURSIVE Reverse(_)
Reverse(seq) == IF seq = << >> THEN << >> ELSE Append(Reverse(Tail(seq)), Head(seq))

\* A faulty LoopOrder: the tickers are visited in descending order.
LoopOrderDescending(frame) == Reverse(SortedSeq({ r.ticker : r \in frame }))

\* Line 143: sorted(rets.ticker.unique()).
LoopOrder(frame) == SortedSeq({ r.ticker : r \in frame })

\* Line 116: rets.empty.
RetsEmpty(r) == r = {}

\* A faulty FacEmpty: the check for an empty factor frame is missing.
FacEmptyNever(f) == FALSE

\* Line 120: fac.empty.
FacEmpty(f) == f.rows = {}

\* Lines 104-140: load the two frames, raising when either is empty, then
\* create the result table if it is absent.
LoadReturns ==
  /\ pc = "load"
  /\ LET r == QueryReturns(vw_monthly_returns, StartYm(args), args.tickers)
         f == QueryFactors(factors_monthly, StartYm(args))
     IN  IF RetsEmpty(r)
         THEN /\ pc' = "failed"
              /\ err' = "NoReturnsFound"
              /\ UNCHANGED << rets, fac, todo >>
         ELSE IF FacEmpty(f)
         THEN /\ pc' = "failed"
              /\ err' = "NoFactorsFound"
              /\ rets' = r
              /\ UNCHANGED << fac, todo >>
         ELSE /\ pc' = "loop"
              /\ rets' = r
              /\ fac' = f
              /\ todo' = LoopOrder(r)
              /\ UNCHANGED err
  /\ UNCHANGED << factors_monthly, vw_monthly_returns, factor_reg_results, args, stdout,
                  runsLeft, base, aligned, olsCalls, fits, lastEnsure >>

\* Line 144, merge(fac, on="ym", how="inner"): one row per pair of a return row
\* of t and a factor row with the same ym.
Joined(t, rframe, fframe) ==
  { [ym |-> r.ym, mret |-> r.mret, mkt_rf |-> f.mkt_rf, smb |-> f.smb,
     hml |-> f.hml, rf |-> f.rf, mom |-> f.mom]
    : << r, f >> \in { p \in rframe \X fframe.rows :
                         p[1].ticker = t /\ p[1].ym = p[2].ym } }

\* Line 144: the columns dropna looks at.
DropnaSubset == { "mret", "mkt_rf", "smb", "hml", "rf" }

\* Line 144: the aligned sample d of ticker t.
Align(t, rframe, fframe) ==
  { d \in Joined(t, rframe, fframe) : \A c \in DropnaSubset : d[c] # NaN }

\* Lines 152-154: the factor columns of the fit.
XCols(carhart, fframe) ==
  IF carhart /\ fframe.hasMom
  THEN << "mkt_rf", "smb", "hml", "mom" >>
  ELSE << "mkt_rf", "smb", "hml" >>

\* A cell minus a cell (line 150, mret - rf).
Minus(a, b) == IF a = NaN \/ b = NaN THEN NaN ELSE Num

\* Whether y or X, as handed to ols, holds a missing cell.
HasNaNCell(d, xcols) ==
  \E r \in d : Minus(r.mret, r.rf) = NaN \/ \E i \in 1 .. Len(xcols) : r[xcols[i]] = NaN

\* Lines 80-88, ols(y, X) on the sample d with columns xcols, when lstsq
\* returns: a NaN cell makes every coefficient and r2 NaN; a single
\* observation has ss_tot = 0 and so r2 = NaN.
ols(d, xcols) ==
  LET bad == HasNaNCell(d, xcols)
      n   == Cardinality(d)
  IN  [coefs |-> [i \in 1 .. Len(xcols) + 1 |-> IF bad THEN NaN ELSE Num],
       r2    |-> IF bad \/ n = 1 THEN NaN ELSE Num,
       n     |-> n]

None == "None"
Null == "NULL"

\* What sqlite3 stores for a bound parameter: None and a NaN float are NULL.
SqlBind(v) == IF v = None \/ v = NaN THEN Null ELSE v

\* Line 163.
BetaMom(coefs, xcols) == IF Len(xcols) = 4 THEN coefs[5] ELSE None

\* A faulty ObservedStart: the row carries the requested start month.
RequestedStart(d) == StartYm(args)

\* Line 171: d["ym"].min() and d["ym"].max().
ObservedStart(d) == StrMin({ r.ym : r \in d })
ObservedEnd(d) == StrMax({ r.ym : r \in d })

\* Lines 159-172: the row bound to the INSERT.
ResultRow(t, d, xcols, fit) ==
  [ticker |-> t,
   start_ym |-> ObservedStart(d),
   end_ym |-> ObservedEnd(d),
   nobs |-> fit.n,
   r2 |-> SqlBind(fit.r2),
   alpha |-> SqlBind(fit.coefs[1]),
   beta_mkt |-> SqlBind(fit.coefs[2]),
   beta_smb |-> SqlBind(fit.coefs[3]),
   beta_hml |-> SqlBind(fit.coefs[4]),
   beta_mom |-> SqlBind(BetaMom(fit.coefs, xcols))]

\* Lines 165-172: INSERT adds the row to the connection's open transaction.
InsertRow(txn, row) == Append(txn, row)

\* A faulty Commit: a row replaces the table's row for the same ticker.
CommitReplacing(tbl, txn) ==
  LET Kept(r) == \A i \in 1 .. Len(txn) : txn[i].ticker # r.ticker
  IN  SelectSeq(tbl, Kept) \o txn

\* Line 173: conn.commit() makes the open transaction part of the table.
Commit(tbl, txn) == tbl \o txn

\* Lines 143-178, one pass of the loop body for the next ticker.  With a NaN
\* cell in the design matrix LAPACK's SVD either fails to converge (lstsq
\* raises LinAlgError, which nothing catches) or yields NaN coefficients,
\* depending on the build: both outcomes are possible here.
ProcessAsset ==
  /\ pc = "loop"
  /\ todo # << >>
  /\ LET t     == Head(todo)
         d     == Align(t, rets, fac)
         xcols == XCols(args.carhart, fac)
         fit   == ols(d, xcols)
         row   == ResultRow(t, d, xcols, fit)
     IN  /\ aligned' = Append(aligned, t)
         /\ IF d = {}
            THEN /\ stdout' = Append(stdout, [kind |-> "skip", ticker |-> t, mom |-> FALSE])
                 /\ todo' = Tail(todo)
                 /\ UNCHANGED << factor_reg_results, olsCalls, fits, pc, err >>
            ELSE /\ olsCalls' = Append(olsCalls, [ticker |-> t, d |-> d, xcols |-> xcols])
                 /\ \/ /\ HasNaNCell(d, xcols)
                       /\ pc' = "failed"
                       /\ err' = "LinAlgError"
                       /\ UNCHANGED << factor_reg_results, fits, stdout, todo >>
                    \/ /\ factor_reg_results' =
                            Commit(factor_reg_results, InsertRow(<< >>, row))
                       /\ fits' = Append(fits, [ticker |-> t, d |-> d, xcols |-> xcols,
                                                 row |-> row])
                       /\ stdout' = Append(stdout,
                                           [kind |-> "result", ticker |-> t,
                                            mom |-> BetaMom(fit.coefs, xcols) # None])
                       /\ todo' = Tail(todo)
                       /\ UNCHANGED << pc, err >>
  /\ UNCHANGED << factors_monthly, vw_monthly_returns, args, rets, fac, runsLeft, base,
                  lastEnsure >>

\* Line 180: the loop is over; conn.close().
Finish ==
  /\ pc = "loop"
  /\ todo = << >>
  /\ pc' = "done"
  /\ UNCHANGED << factors_monthly, vw_monthly_returns, factor_reg_results, args, rets,
                  fac, todo, stdout, err, runsLeft, base, aligned, olsCalls, fits,
                  lastEnsure >>

Next ==
  \/ \E tickers \in TickerLists, start \in StartDates, carhart \in BOOLEAN :
       Start(tickers, start, carhart)
  \/ EnsureFactors
  \/ LoadReturns
  \/ ProcessAsset
  \/ Finish

Spec == Init /\ [][Next]_vars

SpecRuns == InitRuns /\ [][Next]_vars

---------------------------------------------------------------------------
(* Properties *)

\* The rows the running (or last) invocation has added to the result table.
RunRows == SubSeq(factor_reg_results, base + 1, Len(factor_reg_results))

\* A sequence of texts in strictly ascending text order.
Ascending(seq) == \A i, j \in 1 .. Len(seq) : i < j => StrLess(seq[i], seq[j])

TickersOf(rows) == [i \in 1 .. Len(rows) |-> rows[i].ticker]

IsResultLine(l) == l.kind = "result"
IsSkipLine(l) == l.kind = "skip"

\* A text of the form 'YYYY-MM' with a month 01..12.
IsYm(s) ==
  /\ Len(s) = 7
  /\ \A i \in { 1, 2, 3, 4, 6, 7 } : s[i] \in 48 .. 57
  /\ s[5] = 45
  /\ (s[6] - 48) * 10 + (s[7] - 48) \in 1 .. 12

\* C1 as stated: a call of ensure_factors_in_db on a store an earlier call has
\* already written its table to is a no-op, whatever start_ym it is given: the
\* table is left as it is and nothing is fetched.
C1_SecondEnsureIsNoOp ==
  [][ (pc = "ensure" /\ factors_monthly.exists)
        => (factors_monthly' = factors_monthly /\ lastEnsure' = "skipped") ]_vars

\* C1 amended: a call of ensure_factors_in_db on a store whose factors_monthly
\* holds at least one row is a no-op, whatever start_ym it is given: the table
\* is left as it is and nothing is fetched.
C1_EnsureIsNoOpOncePopulated ==
  [][ (pc = "ensure" /\ factors_monthly.rows # {})
        => (factors_monthly' = factors_monthly /\ lastEnsure' = "skipped") ]_vars

\* A later invocation asked for an earlier start than the table covers, and its
\* ensure call returned without fetching.
C1_Witness ==
  /\ runsLeft < MaxRuns - 1
  /\ lastEnsure = "skipped"
  /\ factors_monthly.rows # {}
  /\ \A r \in factors_monthly.rows : StrLess(StartYm(args), r.ym)

\* The keys and the size a row for ticker t has when t is the only ticker
\* requested, from the store alone.
KeysAlone(t) ==
  { r.ym : r \in { x \in vw_monthly_returns :
                     /\ x.ticker = t /\ x.mret # NaN /\ StrGeq(x.ym, StartYm(args))
                     /\ \E f \in factors_monthly.rows : f.ym = x.ym } }

\* C2: the rows an invocation appends, and the summary lines it prints, are in
\* ascending text order of ticker; the loop's visiting order is the ascending
\* sequence of the requested tickers that have a return row from the start
\* month on, and each row's range and count are those its ticker has when
\* requested alone: neither depends on the order of the request.
C2_RowsInTickerOrder ==
  /\ Ascending(TickersOf(RunRows))
  /\ Ascending(TickersOf(SelectSeq(stdout, IsResultLine)))
  /\ \A i \in 1 .. Len(RunRows) :
       LET keys == KeysAlone(RunRows[i].ticker)
       IN  /\ RunRows[i].nobs = Cardinality(keys)
           /\ RunRows[i].start_ym \in keys
           /\ RunRows[i].end_ym \in keys
  /\ pc \in { "loop", "done" } =>
       /\ Ascending(aligned \o todo)
       /\ Range(aligned \o todo) =
            { t \in Range(args.tickers) :
                \E r \in vw_monthly_returns : r.ticker = t /\ StrGeq(r.ym, StartYm(args)) }

\* A finished invocation that was asked for "B" before "AB" and recorded both.
C2_Witness ==
  /\ pc = "done"
  /\ args.tickers = << TickerB, TickerAB >>
  /\ Len(RunRows) = 2

\* The time keys of the aligned sample of ticker t, from the loaded frames:
\* the keys t has a return row for and the factor frame a row for, with none
\* of mret, mkt_rf, smb, hml, rf missing.
AlignedKeys(t) ==
  { k \in { r.ym : r \in rets } :
      /\ \E r \in rets : r.ticker = t /\ r.ym = k /\ r.mret # NaN
      /\ \E f \in fac.rows :
           f.ym = k /\ f.mkt_rf # NaN /\ f.smb # NaN /\ f.hml # NaN /\ f.rf # NaN }

\* C3 as stated: an invocation that has loaded its frames does not abort, and
\* once it is done every visited ticker has one row if its aligned sample is
\* non-empty and none if it is empty.
C3_EveryOverlappingAssetRecorded ==
  /\ err # "LinAlgError"
  /\ pc = "done" =>
       \A t \in Range(aligned) :
         Cardinality({ i \in 1 .. Len(RunRows) : RunRows[i].ticker = t })
           = IF AlignedKeys(t) = {} THEN 0 ELSE 1

C5_ObservedRangeAndCount ==
  /\ Len(fits) = Len(RunRows)
  /\ \A i \in 1 .. Len(fits) :
       LET keys == AlignedKeys(fits[i].ticker)
           row  == RunRows[i]
       IN  /\ row = fits[i].row
           /\ row.ticker = fits[i].ticker
           /\ keys # {}
           /\ row.start_ym \in keys /\ \A k \in keys : ~ StrLess(k, row.start_ym)
           /\ row.end_ym \in keys /\ \A k \in keys : ~ StrLess(row.end_ym, k)
           /\ row.nobs = Cardinality(keys)

\* A persisted row whose sample starts after the requested start month.
C5_Witness ==
  /\ Len(RunRows) >= 1
  /\ StrLess(StartYm(args), RunRows[1].start_ym)
  /\ RunRows[1].nobs >= 1
  /\ \E f \in factors_monthly.rows : f.ym = StartYm(args)

Fatal == { "DataSourceUnavailable", "NoReturnsFound", "NoFactorsFound" }

\* C6: an invocation ended by a fatal condition has aligned and fitted no asset,
\* printed nothing and appended no row; and an invocation is in or past its
\* loop only if it loaded a return row and a factor row from the start on.
C6_FatalAbortsBeforeLoop ==
  /\ err \in Fatal =>
       /\ pc = "failed"
       /\ aligned = << >> /\ olsCalls = << >> /\ fits = << >> /\ stdout = << >>
       /\ Len(factor_reg_results) = base
  /\ (pc \in { "loop", "done" } \/ aligned # << >>) =>
       /\ lastEnsure \in { "skipped", "wrote" }
       /\ \E r \in vw_monthly_returns :
            r.ticker \in Range(args.tickers) /\ StrGeq(r.ym, StartYm(args))
       /\ \E f \in factors_monthly.rows : StrGeq(f.ym, StartYm(args))

\* An invocation that wrote its factor table and then found no factor row from
\* the start on.
C6_Witness ==
  /\ err = "NoFactorsFound"
  /\ lastEnsure = "wrote"
  /\ factors_monthly.exists

\* C7: no step removes or changes a row of factor_reg_results, and a step that
\* inserts a row ends with that row appended to the committed table.
C7_AppendOnlyCommitted ==
  [][ /\ Len(factor_reg_results') >= Len(factor_reg_results)
      /\ SubSeq(factor_reg_results', 1, Len(factor_reg_results)) = factor_reg_results
      /\ Len(fits') > Len(fits) =>
           factor_reg_results' = Append(factor_reg_results, fits'[Len(fits')].row) ]_vars

\* A later invocation added a second row for a ticker an earlier invocation
\* had a row for, then failed on its next asset; the earlier row is in place.
C7_Witness ==
  /\ err = "LinAlgError"
  /\ base >= 1
  /\ Len(RunRows) = 1
  /\ \E i \in 1 .. base : factor_reg_results[i].ticker = RunRows[1].ticker

\* C8 as stated: once an invocation is done, every requested ticker has a row
\* persisted by it or a skip notice printed for it.
C8_EveryRequestedAccounted ==
  pc = "done" =>
    \A t \in Range(args.tickers) :
      \/ \E i \in 1 .. Len(RunRows) : RunRows[i].ticker = t
      \/ \E i \in 1 .. Len(stdout) : IsSkipLine(stdout[i]) /\ stdout[i].ticker = t

\* C9 as stated: the table load_factors_ff returns holds only rows whose ym is
\* a 'YYYY-MM' text at or after start_ym and whose mkt_rf, smb, hml and rf are
\* not missing.
C9_NormalizedRowsValid ==
  lastEnsure = "wrote" =>
    \A r \in factors_monthly.rows :
      /\ IsYm(r.ym)
      /\ StrGeq(r.ym, StartYm(args))
      /\ r.mkt_rf = Num /\ r.smb = Num /\ r.hml = Num /\ r.rf = Num

\* C10 as stated: no row of a sample handed to ols has a missing mret, rf or
\* selected factor cell.
C10_NoMissingCellReachesOls ==
  \A i \in 1 .. Len(olsCalls) :
    \A r \in olsCalls[i].d :
      /\ r.mret # NaN /\ r.rf # NaN
      /\ \A j \in 1 .. Len(olsCalls[i].xcols) : r[olsCalls[i].xcols[j]] # NaN

====
